---- MODULE Spec2Model ----
(***************************************************************************)
(* Model of s5p_utils.py: the Sentinel-5P swath-to-raster pipeline         *)
(* (write_s5p_tif and its helpers), the quality masking                    *)
(* (write_masked_data), the warp parameters (georef_data) and the output   *)
(* file name derivation (generate_out_filepath).                           *)
(*                                                                         *)
(* Text is a sequence of one-character strings, so that slicing, splitting *)
(* and replacing are computed character by character as Python does.       *)
(* A raster is a sequence of pixel values; NaN stands for the float        *)
(* not-a-number.  Resolutions are integers in units of 1e-5 (degrees or    *)
(* metres), so 0.06288 is 6288 and 7000 is 700000000.                      *)
(***************************************************************************)
EXTENDS Integers, Sequences, FiniteSets, TLC

VARIABLES
    fp_in,        \* generate_out_filepath: argument in_filepath
    fp_folder,    \* generate_out_filepath: argument output_folder
    fp_ext,       \* generate_out_filepath: argument ext
    fp_ret,       \* generate_out_filepath: [done, val], the returned path
    m_data,       \* write_masked_data: raster read from data_file
    m_mask,       \* write_masked_data: raster read from mask_file
    m_T,          \* write_masked_data: mask_threshold
    m_out,        \* rasters written by the successive write_masked_data calls
    pc,           \* per run: position in write_s5p_tif
    args,         \* per run: arguments of write_s5p_tif
    idx,          \* per run: 1-based position of the loop over variables
    output_file,  \* per run: local output_file (line 43)
    fs,           \* working directory: the six fixed-name intermediate files
    out,          \* output rasters on disk: set of [path, var, pix]
    warp,         \* per run: arguments of the last gdal.Warp call
    hist,         \* per run: history of the run (for stating the properties)
    calls         \* number of write_s5p_tif invocations so far

vars == <<fp_in, fp_folder, fp_ext, fp_ret, m_data, m_mask, m_T, m_out,
          pc, args, idx, output_file, fs, out, warp, hist, calls>>

fpVars   == <<fp_in, fp_folder, fp_ext, fp_ret>>
maskVars == <<m_data, m_mask, m_T, m_out>>
pipeVars == <<pc, args, idx, output_file, fs, out, warp, hist, calls>>

(***************************************************************************)
(* Bounds of the model.                                                    *)
(***************************************************************************)
NPix        == 2   \* pixels per raster in the masking specification
MaxVars     == 2   \* longest variable list of a sequential invocation
MaxCalls    == 2   \* sequential invocations of write_s5p_tif
MaxConcVars == 1   \* longest variable list of a concurrent invocation

Min(a, b) == IF a < b THEN a ELSE b

(***************************************************************************)
(* Text helpers: Python str.split(sep), s[a:b], s.replace(old, '').        *)
(***************************************************************************)
sep == "/"

\* the position of the k-th separator of s; 0 before the first one and
\* Len(s) + 1 after the last one
SepAt(s, k) ==
    LET I == { i \in 1..Len(s) : s[i] = sep }
    IN  IF k = 0 THEN 0
        ELSE IF k > Cardinality(I) THEN Len(s) + 1
        ELSE CHOOSE i \in I : Cardinality({ j \in I : j < i }) = k - 1

\* s.split(os.path.sep): the list of components, empty ones included:
\* one more component than there are separators, each the text between
\* two neighbouring separators
split(s) ==
    LET n == Cardinality({ i \in 1..Len(s) : s[i] = sep })
    IN  [k \in 1..(n + 1) |-> SubSeq(s, SepAt(s, k - 1) + 1, SepAt(s, k) - 1)]

\* s[a:b] for 0 <= a, 0 <= b: indices beyond the end are clamped
Slice(s, a, b) == SubSeq(s, Min(a, Len(s)) + 1, Min(b, Len(s)))

\* s.replace('_', '')
NotUnderscore(ch) == ch # "_"
replace(s) == SelectSeq(s, NotUnderscore)

VarFrom == 13
VarTo   == 20
TsTo    == 35

\* the variable token with its underscores kept
var_name_short_keep(filename) == Slice(filename, VarFrom, VarTo)
var_name_short(filename) == replace(Slice(filename, VarFrom, VarTo))

timestamp(filename) == Slice(filename, VarTo, TsTo)

\* the fields taken from the whole path instead of its last component
generate_out_filepath_nosplit(in_filepath, output_folder, ext) ==
    output_folder \o <<sep>> \o var_name_short(in_filepath) \o <<"_">>
        \o timestamp(in_filepath) \o ext
generate_out_filepath(in_filepath, output_folder, ext) ==
    LET parts    == split(in_filepath)
        filename == parts[Len(parts)]
    IN  output_folder \o <<sep>> \o var_name_short(filename) \o <<"_">>
            \o timestamp(filename) \o ext

(***************************************************************************)
(* Sample texts.                                                           *)
(***************************************************************************)
NameNO2 == <<"S","5","P","_","O","F","F","L","_","L","2","_","_","N","O","2","_","_","_","_","2","0","2","1","0","1","0","1","T","1","2","0","0","0","0","_","2","0","2","1","0","1","0","1","T","1","3","4","1","3","0",".","n","c">>
NameO3 == <<"S","5","P","_","N","R","T","I","_","L","2","_","_","O","3","_","T","C","L","_","2","0","2","0","0","2","2","9","T","2","3","5","9","5","9","_","x",".","n","c">>
DirData == <<"/","d","a","t","a","/","s","5","p","/">>
DirRel == <<"i","n","/">>
FolderOut == <<"/","o","u","t">>
FolderRel == <<"t","i","f">>
TifExt == <<".","t","i","f">>
VrtExt == <<".","v","r","t">>

Prefixes(s) == { SubSeq(s, 1, n) : n \in 0..Len(s) }
FileNames == Prefixes(NameNO2) \cup Prefixes(NameO3)
Dirs      == { <<>>, DirData, DirRel }
Folders   == { FolderOut, FolderRel }
Exts      == { TifExt, VrtExt }

(***************************************************************************)
(* write_masked_data: data[mask <= mask_threshold] = np.nan                *)
(***************************************************************************)
NaN == -1000000

\* numpy's elementwise a <= b: False when either side is NaN
LeqStrict(a, b) == a # NaN /\ b # NaN /\ a < b
Leq(a, b) == a # NaN /\ b # NaN /\ a <= b

\* the masked raster written upside down (rows in reverse order)
masked_flipped(data, mask, mask_threshold) ==
    [i \in 1..Len(data) |->
        IF Leq(mask[Len(data) + 1 - i], mask_threshold)
        THEN NaN ELSE data[Len(data) + 1 - i]]
masked(data, mask, mask_threshold) ==
    [i \in 1..Len(data) |-> IF Leq(mask[i], mask_threshold) THEN NaN ELSE data[i]]

DataValues == { NaN, -9999, 3, 8 }
MaskValues == { NaN, -9999, 74, 75, 76 }
Thresholds == { 74, 75, 76 }
Rasters(V) == UNION { [1..n -> V] : n \in 1..NPix }

(***************************************************************************)
(* georef_data: the keyword arguments handed to gdal.Warp.  A Python dict  *)
(* is a function from keys to values; d[k] = v is SetItem(d, k, v).        *)
(***************************************************************************)
DstNodata         == -9999
DefaultRes4326    == 6288        \* 0.06288 degrees
DefaultResMeters  == 700000000   \* 7000 metres

SetItem(d, k, v) == (k :> v) @@ d

\* out_filepath.replace('.tif', '.vrt') on the file names of the pipeline
ReplaceTifByVrt(path) ==
    CASE path = "temp_s5p.tif" -> "temp_s5p.vrt"
      [] path = "qa_value.tif" -> "qa_value.vrt"
      [] OTHER -> path

\* out_filepath.replace('.vrt', '.tif') on the file names of the pipeline
ReplaceVrtByTif(path) ==
    CASE path = "temp_s5p_.vrt" -> "temp_s5p_.tif"
      [] path = "qa_value_.vrt" -> "qa_value_.tif"
      [] path = "lat.vrt" -> "lat.tif"
      [] path = "lon.vrt" -> "lon.tif"
      [] OTHER -> path

\* lines 144-153 as they would read with the Y resolution assigned
resolution_xy(params, EPSG_code, spatial_res) ==
    IF spatial_res = <<>>
    THEN IF EPSG_code = "4326"
         THEN SetItem(SetItem(params, "xRes", DefaultRes4326), "yRes", DefaultRes4326)
         ELSE SetItem(SetItem(params, "xRes", DefaultResMeters), "yRes", DefaultResMeters)
    ELSE SetItem(SetItem(params, "xRes", spatial_res[1]), "yRes", spatial_res[2])

\* lines 144-153: the resolution assignments, in program order
resolution(params, EPSG_code, spatial_res) ==
    IF spatial_res = <<>>
    THEN IF EPSG_code = "4326"
         THEN SetItem(SetItem(params, "xRes", DefaultRes4326), "yRes", DefaultRes4326)
         ELSE SetItem(SetItem(params, "xRes", DefaultResMeters), "xRes", DefaultResMeters)
    ELSE SetItem(SetItem(params, "xRes", spatial_res[1]), "xRes", spatial_res[2])

\* georef_data up to its gdal.Warp call: [out_filepath, in_filepath, params]
georef_data(out_filepath, in_filepath, vrt, EPSG_code, spatial_res) ==
    LET p1 == SetItem(<<>>, "dstNodata", DstNodata)
        p2 == SetItem(p1, "dstSRS", "EPSG:" \o EPSG_code)
        p3 == SetItem(p2, "format", IF vrt THEN "VRT" ELSE "Gtiff")
        o  == IF vrt THEN ReplaceTifByVrt(out_filepath) ELSE ReplaceVrtByTif(out_filepath)
    IN  [called |-> TRUE, out_filepath |-> o, in_filepath |-> in_filepath,
         params |-> resolution(p3, EPSG_code, spatial_res)]

NoWarp == [called |-> FALSE, out_filepath |-> "", in_filepath |-> "", params |-> <<>>]

(***************************************************************************)
(* write_s5p_tif: the pipeline over the working directory.                 *)
(***************************************************************************)
Runs    == {1, 2}     \* invocations that may be active at the same time
SeqRuns == {1}        \* the caller's single thread of control

Files == {"lat.vrt", "lon.vrt", "temp_s5p.tif", "temp_s5p_.vrt",
          "qa_value.tif", "qa_value_.vrt"}

data_var == "temp_s5p.tif"
mask_var == "qa_value.tif"
mask_threshold == 75

\* the descriptor written under the raster's own name
vrt_filepath_same(out_filepath) == out_filepath
\* out_filepath.split('.')[0] + '_.vrt' on the two raster names
vrt_filepath(out_filepath) ==
    CASE out_filepath = "temp_s5p.tif" -> "temp_s5p_.vrt"
      [] out_filepath = "qa_value.tif" -> "qa_value_.vrt"

\* The source product: its variables under //PRODUCT, each a raster.
Product == [NO2 |-> <<12, 13>>, O3 |-> <<31, 32>>, qa_value |-> <<75, 76>>,
            latitude |-> <<50, 51>>, longitude |-> <<8, 9>>]
VarNames == {"NO2", "O3", "HCHO"}      \* HCHO is not in the product
ConcVarNames == {"NO2", "HCHO"}

InPaths      == { DirData \o NameNO2, DirRel \o NameO3 }
EPSGCodes    == { "4326", "3857", "32632" }
SpatialRes   == { <<>>, <<350000000, 700000000>>, <<6288, 3144>> }
Lists(V, n)  == UNION { [1..k -> V] : k \in 0..n }

NoFile == [exists |-> FALSE, writer |-> 0, var |-> "", pix |-> <<>>]
File(w, v, px) == [exists |-> TRUE, writer |-> w, var |-> v, pix |-> px]

NoArgs == [in_filepath |-> <<>>, variables |-> <<>>, output_folder |-> <<>>,
           EPSG_code |-> "4326", spatial_res |-> <<>>]
NoHist == [id |-> 0, overlap |-> FALSE, foreign |-> FALSE, err |-> "",
           written |-> {}, processed |-> <<>>, nwarp |-> 0]

Active(q) == pc[q] \notin {"idle", "done", "failed"}

\* Reading the files of rs in order stops at the first missing one.
ReadOK(rs) == \A i \in 1..Len(rs) : fs[rs[i]].exists
ReadsForeign(p, rs) ==
    \E i \in 1..Len(rs) :
        /\ \A j \in 1..i : fs[rs[j]].exists
        /\ fs[rs[i]].writer # hist[p].id

\* An exception leaves write_s5p_tif: nothing catches it (lines 7-63).
Raise(p, e, rs) ==
    /\ pc' = [pc EXCEPT ![p] = "failed"]
    /\ hist' = [hist EXCEPT ![p].err = e,
                            ![p].foreign = @ \/ ReadsForeign(p, rs)]

\* line 45: the next iteration, or the code after the loop
LoopAt(p, i) == IF i <= Len(args[p].variables) THEN "vrt_data" ELSE "rm_lon"

\* A call write_s5p_tif(in_filepath, variables, output_folder, EPSG_code,
\* spatial_res) begins (lines 7-28).
Begin(p, a) ==
    /\ calls' = calls + 1
    /\ pc' = [pc EXCEPT ![p] = "translate_lat"]
    /\ args' = [args EXCEPT ![p] = a]
    /\ idx' = [idx EXCEPT ![p] = 0]
    /\ output_file' = [output_file EXCEPT ![p] = <<>>]
    /\ warp' = [warp EXCEPT ![p] = NoWarp]
    /\ hist' = [q \in Runs |->
                  IF q = p
                  THEN [NoHist EXCEPT !.id = calls + 1,
                                      !.overlap = \E r \in Runs \ {p} : Active(r)]
                  ELSE [hist[q] EXCEPT !.overlap = @ \/ Active(q)]]
    /\ UNCHANGED <<fs, out, fpVars, maskVars>>

\* The caller invokes write_s5p_tif again after the previous call ended.
StartSeq(p) ==
    /\ calls < MaxCalls
    /\ \A q \in Runs : ~Active(q)
    /\ \E f \in InPaths, vs \in Lists(VarNames, MaxVars),
          e \in EPSGCodes, r \in SpatialRes :
          Begin(p, [in_filepath |-> f, variables |-> vs, output_folder |-> FolderOut,
                    EPSG_code |-> e, spatial_res |-> r])

\* Two processes invoke write_s5p_tif in the same working directory.
StartConc(p) ==
    /\ pc[p] = "idle"
    /\ \E vs \in Lists(ConcVarNames, MaxConcVars) :
          Begin(p, [in_filepath |-> DirData \o NameNO2, variables |-> vs,
                    output_folder |-> FolderOut,
                    EPSG_code |-> "4326", spatial_res |-> <<>>])

\* line 33: gdal.Translate("lat.vrt", ...latitude)
TranslateLat(p) ==
    /\ pc[p] = "translate_lat"
    /\ fs' = [fs EXCEPT !["lat.vrt"] = File(hist[p].id, "latitude", Product.latitude)]
    /\ pc' = [pc EXCEPT ![p] = "open_lat"]
    /\ UNCHANGED <<args, idx, output_file, out, warp, hist, calls, fpVars, maskVars>>

\* lines 34-35: lat_ds = gdal.Open("lat.vrt"); lats = lat_ds.ReadAsArray()
OpenLat(p) ==
    /\ pc[p] = "open_lat"
    /\ IF ReadOK(<<"lat.vrt">>)
       THEN /\ pc' = [pc EXCEPT ![p] = "translate_lon"]
            /\ hist' = [hist EXCEPT ![p].foreign = @ \/ ReadsForeign(p, <<"lat.vrt">>)]
       ELSE Raise(p, "ReadMissing", <<"lat.vrt">>)
    /\ UNCHANGED <<args, idx, output_file, fs, out, warp, calls, fpVars, maskVars>>

\* line 36: gdal.Translate("lon.vrt", ...longitude)
TranslateLon(p) ==
    /\ pc[p] = "translate_lon"
    /\ fs' = [fs EXCEPT !["lon.vrt"] = File(hist[p].id, "longitude", Product.longitude)]
    /\ pc' = [pc EXCEPT ![p] = "open_src"]
    /\ UNCHANGED <<args, idx, output_file, out, warp, hist, calls, fpVars, maskVars>>

\* the output path of one iteration, were it derived inside the loop
iteration_out_filepath_per_variable(in_filepath, output_folder, variable, computed) ==
    output_folder \o <<sep>> \o <<variable>> \o TifExt
\* line 43 and its use at line 53: the path computed before the loop is
\* the path every iteration writes
iteration_out_filepath(in_filepath, output_folder, variable, computed) == computed

\* lines 38-43: open the product, name the rasters, derive output_file
OpenSource(p) ==
    /\ pc[p] = "open_src"
    /\ output_file' = [output_file EXCEPT ![p] =
           generate_out_filepath(args[p].in_filepath, args[p].output_folder, TifExt)]
    /\ idx' = [idx EXCEPT ![p] = 1]
    /\ pc' = [pc EXCEPT ![p] = LoopAt(p, 1)]
    /\ UNCHANGED <<args, fs, out, warp, hist, calls, fpVars, maskVars>>

\* lines 71-96 of write_var_to_tif: the descriptor is written as templated
WriteVrt(p) ==
    /\ pc[p] \in {"vrt_data", "vrt_mask"}
    /\ LET o == IF pc[p] = "vrt_data" THEN data_var ELSE mask_var
           v == IF pc[p] = "vrt_data" THEN args[p].variables[idx[p]] ELSE "qa_value"
       IN  fs' = [fs EXCEPT ![vrt_filepath(o)] = File(hist[p].id, v, <<>>)]
    /\ pc' = [pc EXCEPT ![p] = IF pc[p] = "vrt_data" THEN "warp_data" ELSE "warp_mask"]
    /\ UNCHANGED <<args, idx, output_file, out, warp, hist, calls, fpVars, maskVars>>

\* line 99 of write_var_to_tif: georef_data(out_filepath, vrt_filepath,
\* vrt=False, **kwargs), whose gdal.Warp (line 156) reads the descriptor and
\* the geolocation rasters it names, then the variable the descriptor
\* names, and raises when that variable is not in the product.
GeorefData(p) ==
    /\ pc[p] \in {"warp_data", "warp_mask"}
    /\ LET o  == IF pc[p] = "warp_data" THEN data_var ELSE mask_var
           w  == georef_data(o, vrt_filepath(o), FALSE,
                             args[p].EPSG_code, args[p].spatial_res)
           rs == <<w.in_filepath, "lon.vrt", "lat.vrt">>
           v  == fs[w.in_filepath].var
       IN  /\ warp' = [warp EXCEPT ![p] = w]
           /\ IF ~ReadOK(rs)
              THEN /\ Raise(p, "ReadMissing", rs)
                   /\ UNCHANGED fs
              ELSE IF v \notin DOMAIN Product
              THEN /\ pc' = [pc EXCEPT ![p] = "failed"]
                   /\ hist' = [hist EXCEPT ![p].err = "MissingVariable",
                                           ![p].nwarp = @ + 1,
                                           ![p].foreign = @ \/ ReadsForeign(p, rs)]
                   /\ UNCHANGED fs
              ELSE /\ fs' = [fs EXCEPT ![w.out_filepath] =
                                 File(hist[p].id, v, Product[v])]
                   /\ pc' = [pc EXCEPT ![p] =
                                 IF pc[p] = "warp_data" THEN "vrt_mask" ELSE "mask"]
                   /\ hist' = [hist EXCEPT ![p].nwarp = @ + 1,
                                           ![p].foreign = @ \/ ReadsForeign(p, rs)]
    /\ UNCHANGED <<args, idx, output_file, out, calls, fpVars, maskVars>>

\* line 53: write_masked_data(output_file, data_var, mask_var, 75)
\* (lines 107-123): read both rasters, mask, write the output raster
WriteMaskedData(p) ==
    /\ pc[p] = "mask"
    /\ LET rs   == <<data_var, mask_var>>
           d    == fs[data_var]
           path == iteration_out_filepath(args[p].in_filepath, args[p].output_folder,
                                          args[p].variables[idx[p]], output_file[p])
       IN  IF ~ReadOK(rs)
           THEN /\ Raise(p, "ReadMissing", rs)
                /\ UNCHANGED out
           ELSE /\ out' = { r \in out : r.path # path } \cup
                          { [path |-> path, var |-> d.var,
                             pix |-> masked(d.pix, fs[mask_var].pix, mask_threshold)] }
                /\ pc' = [pc EXCEPT ![p] = "rm_data"]
                /\ hist' = [hist EXCEPT ![p].written = @ \cup {path},
                                        ![p].processed = Append(@, d.var),
                                        ![p].foreign = @ \/ ReadsForeign(p, rs)]
    /\ UNCHANGED <<args, idx, output_file, fs, warp, calls, fpVars, maskVars>>

\* line 57 removing data_var a second time
RemoveTarget_dup(at) ==
    CASE at = "rm_data"     -> data_var
      [] at = "rm_data_vrt" -> data_var
      [] at = "rm_mask"     -> mask_var
      [] at = "rm_mask_vrt" -> vrt_filepath(mask_var)
      [] at = "rm_lon"      -> "lon.vrt"
      [] at = "rm_lat"      -> "lat.vrt"
\* the file each os.remove names (lines 56-59, 62-63)
RemoveTarget(at) ==
    CASE at = "rm_data"     -> data_var
      [] at = "rm_data_vrt" -> vrt_filepath(data_var)
      [] at = "rm_mask"     -> mask_var
      [] at = "rm_mask_vrt" -> vrt_filepath(mask_var)
      [] at = "rm_lon"      -> "lon.vrt"
      [] at = "rm_lat"      -> "lat.vrt"

\* line 59 missing: the mask descriptor is never removed
unlink_skip_mask_vrt(f) ==
    IF f = "qa_value_.vrt" THEN fs ELSE [fs EXCEPT ![f] = NoFile]
\* os.remove(f) on an existing file: the working directory without f
unlink(f) == [fs EXCEPT ![f] = NoFile]

\* lines 56-59 and 62-63: os.remove raises FileNotFoundError on a missing file
Remove(p) ==
    /\ pc[p] \in {"rm_data", "rm_data_vrt", "rm_mask", "rm_mask_vrt", "rm_lon", "rm_lat"}
    /\ LET f == RemoveTarget(pc[p])
       IN  IF fs[f].exists
           THEN /\ fs' = unlink(f)
                /\ pc' = [pc EXCEPT ![p] =
                     CASE pc[p] = "rm_data"     -> "rm_data_vrt"
                       [] pc[p] = "rm_data_vrt" -> "rm_mask"
                       [] pc[p] = "rm_mask"     -> "rm_mask_vrt"
                       [] pc[p] = "rm_mask_vrt" -> LoopAt(p, idx[p] + 1)
                       [] pc[p] = "rm_lon"      -> "rm_lat"
                       [] pc[p] = "rm_lat"      -> "done"]
                /\ idx' = [idx EXCEPT ![p] = IF pc[p] = "rm_mask_vrt" THEN @ + 1 ELSE @]
                /\ UNCHANGED hist
           ELSE /\ Raise(p, "RemoveMissing", <<>>)
                /\ UNCHANGED <<fs, idx>>
    /\ UNCHANGED <<args, output_file, out, warp, calls, fpVars, maskVars>>

(***************************************************************************)
(* Calls of the two pure helpers on their own.                             *)
(***************************************************************************)
\* generate_out_filepath(fp_in, fp_folder, fp_ext) returns (lines 168-171)
GenerateOutFilepath ==
    /\ ~fp_ret.done
    /\ fp_ret' = [done |-> TRUE, val |-> generate_out_filepath(fp_in, fp_folder, fp_ext)]
    /\ UNCHANGED <<fp_in, fp_folder, fp_ext, maskVars, pipeVars>>

\* write_masked_data on (data, mask, T); a second call takes the raster the
\* first one wrote as its data_file (lines 107-123)
MaskCall ==
    /\ Len(m_out) < 2
    /\ m_out' = Append(m_out, masked(IF m_out = <<>> THEN m_data ELSE m_out[Len(m_out)],
                                     m_mask, m_T))
    /\ UNCHANGED <<m_data, m_mask, m_T, fpVars, pipeVars>>

(***************************************************************************)
(* Initial states and specifications.                                      *)
(***************************************************************************)
IdlePath == /\ fp_in = <<>> /\ fp_folder = <<>> /\ fp_ext = <<>>
            /\ fp_ret = [done |-> FALSE, val |-> <<>>]
IdleMask == m_data = <<>> /\ m_mask = <<>> /\ m_T = mask_threshold /\ m_out = <<>>
IdlePipe ==
    /\ pc = [p \in Runs |-> "idle"]
    /\ args = [p \in Runs |-> NoArgs]
    /\ idx = [p \in Runs |-> 0]
    /\ output_file = [p \in Runs |-> <<>>]
    /\ fs = [f \in Files |-> NoFile]
    /\ out = {}
    /\ warp = [p \in Runs |-> NoWarp]
    /\ hist = [p \in Runs |-> NoHist]
    /\ calls = 0

\* write_s5p_tif called from one thread, one call after the other
Init == IdlePipe /\ IdlePath /\ IdleMask
Next ==
    \E p \in SeqRuns :
        \/ StartSeq(p) \/ TranslateLat(p) \/ OpenLat(p) \/ TranslateLon(p)
        \/ OpenSource(p) \/ WriteVrt(p) \/ GeorefData(p) \/ WriteMaskedData(p)
        \/ Remove(p)
Spec == Init /\ [][Next]_vars

\* two invocations of write_s5p_tif interleaved in one working directory
NextConc ==
    \E p \in Runs :
        \/ StartConc(p) \/ TranslateLat(p) \/ OpenLat(p) \/ TranslateLon(p)
        \/ OpenSource(p) \/ WriteVrt(p) \/ GeorefData(p) \/ WriteMaskedData(p)
        \/ Remove(p)
ConcSpec == Init /\ [][NextConc]_vars

\* generate_out_filepath over the sample paths
InitPath ==
    /\ fp_in \in { d \o n : d \in Dirs, n \in FileNames }
    /\ fp_folder \in Folders
    /\ fp_ext \in Exts
    /\ fp_ret = [done |-> FALSE, val |-> <<>>]
    /\ IdlePipe /\ IdleMask
PathSpec == InitPath /\ [][GenerateOutFilepath]_vars

\* write_masked_data over all small rasters of equal shape
InitMask ==
    /\ \E n \in 1..NPix : m_data \in [1..n -> DataValues] /\ m_mask \in [1..n -> MaskValues]
    /\ m_T \in Thresholds
    /\ m_out = <<>>
    /\ IdlePipe /\ IdlePath
MaskSpec == InitMask /\ [][MaskCall]_vars

(***************************************************************************)
(* Properties.                                                             *)
(***************************************************************************)
IsNumber(x) == x # NaN

\* C1: write_masked_data turns every pixel whose quality value is <= T into
\* NaN (the boundary quality = T included) and leaves every pixel whose
\* quality value is > T exactly as it was read.
C1_MaskPolicy ==
    Len(m_out) >= 1 =>
        /\ Len(m_out[1]) = Len(m_data)
        /\ \A i \in 1..Len(m_data) :
              /\ (IsNumber(m_mask[i]) /\ m_mask[i] <= m_T) => m_out[1][i] = NaN
              /\ (IsNumber(m_mask[i]) /\ m_mask[i] > m_T) => m_out[1][i] = m_data[i]

C1_Witness ==
    /\ Len(m_out) >= 1
    /\ \E i, j \in 1..Len(m_data) :
          /\ m_mask[i] = m_T /\ IsNumber(m_data[i]) /\ m_out[1][i] = NaN
          /\ IsNumber(m_mask[j]) /\ m_mask[j] > m_T
          /\ IsNumber(m_data[j]) /\ m_out[1][j] = m_data[j]

\* C2: masking the raster a previous write_masked_data call wrote, with the
\* same quality raster and the same threshold, writes that raster again.
C2_MaskIdempotent == Len(m_out) = 2 => m_out[2] = m_out[1]

C2_Witness ==
    /\ Len(m_out) = 2
    /\ \E i, j \in 1..Len(m_data) :
          /\ IsNumber(m_data[i]) /\ m_out[2][i] = NaN
          /\ IsNumber(m_data[j]) /\ m_out[2][j] = m_data[j]

\* The last path component: what follows the last separator.
C3_LastComponent(path) ==
    LET I    == { i \in 1..Len(path) : path[i] = "/" }
        last == IF I = {} THEN 0 ELSE CHOOSE i \in I : \A j \in I : j <= i
    IN  [k \in 1..(Len(path) - last) |-> path[last + k]]

\* Characters lo up to (not including) hi of name, counted from 0.
C3_Chars(name, lo, hi) ==
    LET n == IF Len(name) < hi THEN Len(name) ELSE hi
    IN  [k \in 1..(IF n > lo THEN n - lo ELSE 0) |-> name[lo + k]]

RECURSIVE C3_NoUnderscore(_)
C3_NoUnderscore(s) ==
    IF s = <<>> THEN <<>>
    ELSE IF Head(s) = "_" THEN C3_NoUnderscore(Tail(s))
    ELSE <<Head(s)>> \o C3_NoUnderscore(Tail(s))

C3_Expected(path, folder, ext) ==
    LET name == C3_LastComponent(path)
    IN  folder \o <<"/">> \o C3_NoUnderscore(C3_Chars(name, 13, 20)) \o <<"_">>
            \o C3_Chars(name, 20, 35) \o ext

\* C3: generate_out_filepath returns output_folder + separator + V + '_' +
\* TS + ext, V being characters 13..19 of the last component of the input
\* path with the underscores removed and TS its characters 20..34.
C3_OutFilepath ==
    fp_ret.done => fp_ret.val = C3_Expected(fp_in, fp_folder, fp_ext)

C3_Witness ==
    /\ fp_ret.done
    /\ \E i \in 1..Len(fp_in) : fp_in[i] = "/"
    /\ Len(C3_LastComponent(fp_in)) > 35
    /\ \E k \in 14..20 : C3_LastComponent(fp_in)[k] = "_"
    /\ \E k \in 14..20 : C3_LastComponent(fp_in)[k] # "_"

C4_Prefix == <<"S","5","P","_","O","F","F","L","_","L","2","_","_","N","O","2","_","_","_","_","2","0","2","1","0","1","0","1","T","1","2","0","0","0","0","_">>
C4_Claimed == <<"/","o","u","t","/","N","O","2","_","_","_","_","_","2","0","2","1","0","1","0","1","T","1","2","0","0","0","0",".","t","i","f">>
C4_Returned == <<"/","o","u","t","/","N","O","2","_","2","0","2","1","0","1","0","1","T","1","2","0","0","0","0",".","t","i","f">>

C4_Case ==
    /\ fp_ret.done
    /\ fp_folder = <<"/","o","u","t">>
    /\ fp_ext = <<".","t","i","f">>
    /\ Len(C3_LastComponent(fp_in)) >= Len(C4_Prefix)
    /\ SubSeq(C3_LastComponent(fp_in), 1, Len(C4_Prefix)) = C4_Prefix

\* C4 as stated: for folder "/out", extension ".tif" and a file name
\* beginning "S5P_OFFL_L2__NO2____20210101T120000_" the result is
\* "/out/NO2_____20210101T120000.tif".
C4_Original == C4_Case => fp_ret.val = C4_Claimed

\* C4 amended: for folder "/out", extension ".tif" and a file name beginning
\* "S5P_OFFL_L2__NO2____20210101T120000_" the result is
\* "/out/NO2_20210101T120000.tif" (the underscores of the token are removed).
C4_Amended == C4_Case => fp_ret.val = C4_Returned

C4_Witness == C4_Case /\ fp_ret.val = C4_Returned /\ Len(fp_in) > Len(C4_Prefix)

\* C5: with a non-empty spatial_res = [rx, ry] the warp call receives
\* X resolution rx and Y resolution ry, whatever the EPSG code.
C5_WarpGetsXY ==
    \A p \in Runs :
        (warp[p].called /\ args[p].spatial_res # <<>>) =>
            /\ {"xRes", "yRes"} \subseteq DOMAIN warp[p].params
            /\ warp[p].params["xRes"] = args[p].spatial_res[1]
            /\ warp[p].params["yRes"] = args[p].spatial_res[2]

NoIntermediate == \A f \in Files : ~fs[f].exists

\* C6 as stated: after write_s5p_tif returns normally none of the six
\* intermediate files exists in the working directory.
C6_Original == \A p \in Runs : pc[p] = "done" => NoIntermediate

\* C6 amended: after write_s5p_tif returns normally no intermediate file
\* written by that run exists, lat.vrt and lon.vrt do not exist, and with a
\* non-empty variable list none of the six exists (with an empty list a
\* temp_s5p/qa_value file left by an earlier failed run stays); and no run
\* reads an intermediate file that is not there.
C6_Amended ==
    \A p \in Runs :
        /\ hist[p].err # "ReadMissing"
        /\ pc[p] = "done" =>
              /\ \A f \in Files : fs[f].exists => fs[f].writer # hist[p].id
              /\ ~fs["lat.vrt"].exists /\ ~fs["lon.vrt"].exists
              /\ args[p].variables # <<>> => NoIntermediate

C6_Witness ==
    \E p \in Runs :
        /\ pc[p] = "done" /\ Len(args[p].variables) >= 2
        /\ hist[p].nwarp = 2 * Len(args[p].variables)
        /\ NoIntermediate

\* C7 as stated: georef_data never sets the Y resolution, in any branch.
C7_Original ==
    \A p \in Runs : warp[p].called => "yRes" \notin DOMAIN warp[p].params

\* C7 amended: georef_data leaves the Y resolution unset when spatial_res is
\* non-empty (X ends as spatial_res[1], the second element) and when it is
\* empty with an EPSG code other than "4326" (X is 7000); with an empty
\* spatial_res and EPSG code "4326" it sets both X and Y to 0.06288.
C7_Amended ==
    \A p \in Runs :
        warp[p].called =>
            LET ps == warp[p].params
                sr == args[p].spatial_res
            IN  /\ "xRes" \in DOMAIN ps
                /\ "yRes" \in DOMAIN ps <=> (sr = <<>> /\ args[p].EPSG_code = "4326")
                /\ (sr = <<>> /\ args[p].EPSG_code = "4326") =>
                       ps["xRes"] = 6288 /\ ps["yRes"] = 6288
                /\ (sr = <<>> /\ args[p].EPSG_code # "4326") => ps["xRes"] = 700000000
                /\ sr # <<>> => ps["xRes"] = sr[2]

C7_Witness ==
    \E p \in Runs :
        /\ warp[p].called /\ args[p].spatial_res # <<>>
        /\ args[p].spatial_res[1] # args[p].spatial_res[2]
        /\ "yRes" \notin DOMAIN warp[p].params
        /\ warp[p].params["xRes"] = args[p].spatial_res[2]

Collided(p) == hist[p].foreign \/ hist[p].err \in {"RemoveMissing", "ReadMissing"}

\* C8: a run of write_s5p_tif reads an intermediate file last written by
\* another run, or fails on a file another run removed, only when the two
\* runs overlap in time; two overlapping runs can reach both (the witness).
C8_CollisionOnlyWhenConcurrent == \A p \in Runs : Collided(p) => hist[p].overlap

C8_Witness ==
    \E p, q \in Runs :
        /\ p # q
        /\ hist[p].foreign
        /\ hist[q].err = "RemoveMissing"

FailedOnMissing(p) == pc[p] = "failed" /\ hist[p].err = "MissingVariable"

C9_State ==
    \A p \in Runs :
        FailedOnMissing(p) =>
            LET vs == args[p].variables
                i  == idx[p]
            IN  /\ i \in 1..Len(vs) /\ vs[i] \notin DOMAIN Product
                /\ fs["temp_s5p_.vrt"].exists /\ fs["temp_s5p_.vrt"].var = vs[i]
                /\ fs["temp_s5p_.vrt"].writer = hist[p].id
                /\ warp[p].called /\ warp[p].in_filepath = "temp_s5p_.vrt"
                /\ fs["lat.vrt"].exists /\ fs["lon.vrt"].exists
                /\ hist[p].nwarp = 2 * (i - 1) + 1
                /\ hist[p].processed = SubSeq(vs, 1, i - 1)
                /\ i > 1 => \E r \in out : r.path = output_file[p] /\ r.var = vs[i - 1]

C9_Step ==
    \A p \in Runs :
        (FailedOnMissing(p) /\ calls' = calls) =>
            /\ pc'[p] = "failed" /\ hist'[p] = hist[p] /\ idx'[p] = idx[p]
            /\ fs' = fs /\ out' = out

\* C9: a variable that is not in the product is found only by the warp call
\* that follows the writing of temp_s5p_.vrt; the failure leaves
\* write_s5p_tif with no retry, no later variable processed and no cleanup:
\* lat.vrt, lon.vrt, temp_s5p_.vrt and the output of an earlier variable
\* stay on disk.
C9_MissingVariable == []C9_State /\ [][C9_Step]_vars

C9_Witness ==
    \E p \in Runs :
        /\ FailedOnMissing(p) /\ idx[p] = 2
        /\ fs["temp_s5p_.vrt"].exists /\ ~fs["temp_s5p.tif"].exists
        /\ \E r \in out : r.path = output_file[p]

====
